---- MODULE Spec2Model ----
(***************************************************************************)
(* Model of psycopg_c/types/numutils.c: decimal formatting of 64-bit       *)
(* integers (pg_leftmost_one_pos64, decimalLength64, pg_ulltoa_n,          *)
(* pg_lltoa).                                                              *)
(*                                                                         *)
(* TLC integers are 32 bits wide, so a C unsigned integer is modelled by   *)
(* its binary representation: a sequence of 4-bit limbs, least significant *)
(* first (16 limbs for uint64_t, 8 limbs for uint32_t).  The C operators   *)
(* on these types (+, -, *, /, %, >>, comparisons, casts) are modelled by  *)
(* limb-wise schoolbook arithmetic, wrapping modulo 2^width as C does.     *)
(***************************************************************************)
EXTENDS Integers, Sequences, FiniteSets

(***************************************************************************)
(* Bounds of the model.                                                    *)
(***************************************************************************)
\* Inputs are taken at distance at most MaxDelta from every power of two
\* and every power of ten (and from their negations).
MaxDelta == 1
\* Bytes of memory modelled on each side of the caller's buffer.
RedZone == 2

(***************************************************************************)
(* C unsigned arithmetic on limb sequences.                                *)
(***************************************************************************)
W64 == 64 \div 4
W32 == 32 \div 4

Zero(w) == [k \in 1..w |-> 0]

\* The value of a non-negative integer literal in a type of w limbs.
RECURSIVE Limbs(_, _)
Limbs(n, w) == IF w = 0 THEN <<>> ELSE <<n % 16>> \o Limbs(n \div 16, w - 1)

U64(n) == Limbs(n, W64)
U32(n) == Limbs(n, W32)

IsZero(x) == \A k \in 1..Len(x) : x[k] = 0

\* (uint32_t) x: the low 32 bits.
CastU32(x) == SubSeq(x, 1, W32)

\* Integer promotion of a uint32_t to uint64_t.
ZeroExtend(x, w) == x \o Zero(w - Len(x))

\* x == y ? 0 : (x < y ? -1 : 1), comparing from limb k downwards.
RECURSIVE CmpFrom(_, _, _)
CmpFrom(x, y, k) ==
  IF k = 0 THEN 0
  ELSE IF x[k] < y[k] THEN -1
  ELSE IF x[k] > y[k] THEN 1
  ELSE CmpFrom(x, y, k - 1)

\* x >= y, operands of the same type.
GeU(x, y) == CmpFrom(x, y, Len(x)) >= 0

\* x * m modulo 2^width, m a small non-negative constant (m <= 10^8).
RECURSIVE MulFrom(_, _, _, _)
MulFrom(x, m, k, carry) ==
  IF k > Len(x) THEN <<>>
  ELSE LET p == x[k] * m + carry
       IN  <<p % 16>> \o MulFrom(x, m, k + 1, p \div 16)

MulU(x, m) == MulFrom(x, m, 1, 0)

\* x - y modulo 2^width.
RECURSIVE SubFrom(_, _, _, _)
SubFrom(x, y, k, borrow) ==
  IF k > Len(x) THEN <<>>
  ELSE LET d == x[k] - y[k] - borrow
       IN  <<(d + 16) % 16>> \o SubFrom(x, y, k + 1, IF d < 0 THEN 1 ELSE 0)

SubU(x, y) == SubFrom(x, y, 1, 0)

\* x + y modulo 2^width.
RECURSIVE AddFrom(_, _, _, _)
AddFrom(x, y, k, carry) ==
  IF k > Len(x) THEN <<>>
  ELSE LET s == x[k] + y[k] + carry
       IN  <<s % 16>> \o AddFrom(x, y, k + 1, s \div 16)

AddU(x, y) == AddFrom(x, y, 1, 0)

\* Long division of limbs k..1 of x by the small constant m (0 < m <= 10^8),
\* with r the remainder carried in from the limbs above.
RECURSIVE DivFrom(_, _, _, _)
DivFrom(x, m, k, r) ==
  IF k = 0 THEN <<>>
  ELSE LET cur == r * 16 + x[k]
       IN  DivFrom(x, m, k - 1, cur % m) \o <<cur \div m>>

RECURSIVE RemFrom(_, _, _, _)
RemFrom(x, m, k, r) ==
  IF k = 0 THEN r ELSE RemFrom(x, m, k - 1, (r * 16 + x[k]) % m)

\* x / m and x % m.
DivU(x, m) == DivFrom(x, m, Len(x), 0)
RemU(x, m) == RemFrom(x, m, Len(x), 0)

\* x >> s, 0 <= s < width.
ShiftRight(x, s) ==
  LET n == s \div 4
      b == s % 4
      lo == 2 ^ b
      hi == 2 ^ (4 - b)
      At(k) == IF k <= Len(x) THEN x[k] ELSE 0
  IN  [k \in 1..Len(x) |-> (At(k + n) \div lo) + (At(k + n + 1) % lo) * hi]

\* x & 255.
LowByte(x) == x[1] + 16 * x[2]

\* A value below 2^31 as an integer.
RECURSIVE IntFrom(_, _)
IntFrom(x, k) == IF k > Len(x) THEN 0 ELSE x[k] + 16 * IntFrom(x, k + 1)

ToInt(x) == IntFrom(x, 1)

\* UINT64_C(x), x written as its decimal digits.
RECURSIVE DecFrom(_, _, _)
DecFrom(ds, k, acc) ==
  IF k > Len(ds) THEN acc
  ELSE DecFrom(ds, k + 1, AddU(MulU(acc, 10), Limbs(ds[k], Len(acc))))

UINT64CONST(ds) == DecFrom(ds, 1, Zero(W64))

(***************************************************************************)
(* The constant tables.                                                    *)
(***************************************************************************)
pg_leftmost_one_pos ==
   << 
      0, 0, 1, 1, 2, 2, 2, 2, 3, 3, 3, 3, 3, 3, 3, 3,
      4, 4, 4, 4, 4, 4, 4, 4, 4, 4, 4, 4, 4, 4, 4, 4,
      5, 5, 5, 5, 5, 5, 5, 5, 5, 5, 5, 5, 5, 5, 5, 5,
      5, 5, 5, 5, 5, 5, 5, 5, 5, 5, 5, 5, 5, 5, 5, 5,
      6, 6, 6, 6, 6, 6, 6, 6, 6, 6, 6, 6, 6, 6, 6, 6,
      6, 6, 6, 6, 6, 6, 6, 6, 6, 6, 6, 6, 6, 6, 6, 6,
      6, 6, 6, 6, 6, 6, 6, 6, 6, 6, 6, 6, 6, 6, 6, 6,
      6, 6, 6, 6, 6, 6, 6, 6, 6, 6, 6, 6, 6, 6, 6, 6,
      7, 7, 7, 7, 7, 7, 7, 7, 7, 7, 7, 7, 7, 7, 7, 7,
      7, 7, 7, 7, 7, 7, 7, 7, 7, 7, 7, 7, 7, 7, 7, 7,
      7, 7, 7, 7, 7, 7, 7, 7, 7, 7, 7, 7, 7, 7, 7, 7,
      7, 7, 7, 7, 7, 7, 7, 7, 7, 7, 7, 7, 7, 7, 7, 7,
      7, 7, 7, 7, 7, 7, 7, 7, 7, 7, 7, 7, 7, 7, 7, 7,
      7, 7, 7, 7, 7, 7, 7, 7, 7, 7, 7, 7, 7, 7, 7, 7,
      7, 7, 7, 7, 7, 7, 7, 7, 7, 7, 7, 7, 7, 7, 7, 7,
      7, 7, 7, 7, 7, 7, 7, 7, 7, 7, 7, 7, 7, 7, 7, 7
   >>

DIGIT_TABLE ==
   << 
      48, 48, 48, 49, 48, 50, 48, 51, 48, 52, 48, 53, 48, 54, 48, 55, 48, 56, 48, 57,
      49, 48, 49, 49, 49, 50, 49, 51, 49, 52, 49, 53, 49, 54, 49, 55, 49, 56, 49, 57,
      50, 48, 50, 49, 50, 50, 50, 51, 50, 52, 50, 53, 50, 54, 50, 55, 50, 56, 50, 57,
      51, 48, 51, 49, 51, 50, 51, 51, 51, 52, 51, 53, 51, 54, 51, 55, 51, 56, 51, 57,
      52, 48, 52, 49, 52, 50, 52, 51, 52, 52, 52, 53, 52, 54, 52, 55, 52, 56, 52, 57,
      53, 48, 53, 49, 53, 50, 53, 51, 53, 52, 53, 53, 53, 54, 53, 55, 53, 56, 53, 57,
      54, 48, 54, 49, 54, 50, 54, 51, 54, 52, 54, 53, 54, 54, 54, 55, 54, 56, 54, 57,
      55, 48, 55, 49, 55, 50, 55, 51, 55, 52, 55, 53, 55, 54, 55, 55, 55, 56, 55, 57,
      56, 48, 56, 49, 56, 50, 56, 51, 56, 52, 56, 53, 56, 54, 56, 55, 56, 56, 56, 57,
      57, 48, 57, 49, 57, 50, 57, 51, 57, 52, 57, 53, 57, 54, 57, 55, 57, 56, 57, 57
   >>

PowersOfTen ==
   << 
      UINT64CONST(<<1>>),
      UINT64CONST(<<1,0>>),
      UINT64CONST(<<1,0,0>>),
      UINT64CONST(<<1,0,0,0>>),
      UINT64CONST(<<1,0,0,0,0>>),
      UINT64CONST(<<1,0,0,0,0,0>>),
      UINT64CONST(<<1,0,0,0,0,0,0>>),
      UINT64CONST(<<1,0,0,0,0,0,0,0>>),
      UINT64CONST(<<1,0,0,0,0,0,0,0,0>>),
      UINT64CONST(<<1,0,0,0,0,0,0,0,0,0>>),
      UINT64CONST(<<1,0,0,0,0,0,0,0,0,0,0>>),
      UINT64CONST(<<1,0,0,0,0,0,0,0,0,0,0,0>>),
      UINT64CONST(<<1,0,0,0,0,0,0,0,0,0,0,0,0>>),
      UINT64CONST(<<1,0,0,0,0,0,0,0,0,0,0,0,0,0>>),
      UINT64CONST(<<1,0,0,0,0,0,0,0,0,0,0,0,0,0,0>>),
      UINT64CONST(<<1,0,0,0,0,0,0,0,0,0,0,0,0,0,0,0>>),
      UINT64CONST(<<1,0,0,0,0,0,0,0,0,0,0,0,0,0,0,0,0>>),
      UINT64CONST(<<1,0,0,0,0,0,0,0,0,0,0,0,0,0,0,0,0,0>>),
      UINT64CONST(<<1,0,0,0,0,0,0,0,0,0,0,0,0,0,0,0,0,0,0>>),
      UINT64CONST(<<1,0,0,0,0,0,0,0,0,0,0,0,0,0,0,0,0,0,0,0>>)
   >>

(***************************************************************************)
(* State.                                                                  *)
(***************************************************************************)
VARIABLES
  HAVE__BUILTIN_CLZ,  \* build configuration: TRUE selects the __builtin_clz path
  fn,                 \* the entry point called: "pg_ulltoa_n" or "pg_lltoa"
  arg,                \* the 64 bits of the argument `value` of the entry point
  mem,                \* memory around the caller's buffer; the buffer starts at 0
  pc,                 \* position in the code
  uvalue, len,        \* locals of pg_lltoa
  value, a,           \* parameters of pg_ulltoa_n (a: offset of the pointer)
  olength, i, value2, \* locals of pg_ulltoa_n
  ret,                \* the value returned by the entry point
  fill,               \* the byte every memory cell held before the call
  written,            \* offsets of the bytes stored so far
  lookups,            \* offsets used so far into DIGIT_TABLE
  lenArgs,            \* arguments decimalLength64 was called with
  iters,              \* iterations of the 8-digit loop so far
  steps               \* steps taken so far

vars == <<HAVE__BUILTIN_CLZ, fn, arg, mem, pc, uvalue, len, value, a,
          olength, i, value2, ret, fill, written, lookups, lenArgs, iters,
          steps>>

(***************************************************************************)
(* pg_leftmost_one_pos64                                                   *)
(***************************************************************************)
\* Leading zero bits of a nonzero 4-bit limb.
ClzLimb(n) == IF n >= 8 THEN 0 ELSE IF n >= 4 THEN 1 ELSE IF n >= 2 THEN 2 ELSE 3

\* __builtin_clzl / __builtin_clzll of a nonzero 64-bit word.
RECURSIVE ClzFrom(_, _)
ClzFrom(word, k) ==
  IF k = 0 THEN 0
  ELSE IF word[k] # 0 THEN ClzLimb(word[k])
  ELSE 4 + ClzFrom(word, k - 1)

builtin_clzl(word) == ClzFrom(word, Len(word))

BuiltinPos64(word) == 63 - builtin_clzl(word)

\* while ((word >> shift) == 0) shift -= 8;  the value of shift at the exit.
\* A nonzero word leaves the loop with shift >= 0.
RECURSIVE ScanShift(_, _)
ScanShift(word, shift) ==
  IF shift < 0 THEN shift
  ELSE IF ~IsZero(ShiftRight(word, shift)) THEN shift
  ELSE ScanShift(word, shift - 8)

\* Mutant: the scan starts one byte too low.
TablePos64From48(word) ==
  LET shift == ScanShift(word, 64 - 16)
  IN  shift + pg_leftmost_one_pos[LowByte(ShiftRight(word, shift)) + 1]

TablePos64(word) ==
  LET shift == ScanShift(word, 64 - 8)
  IN  shift + pg_leftmost_one_pos[LowByte(ShiftRight(word, shift)) + 1]

pg_leftmost_one_pos64(word) ==
  IF HAVE__BUILTIN_CLZ THEN BuiltinPos64(word) ELSE TablePos64(word)

(***************************************************************************)
(* decimalLength64                                                         *)
(***************************************************************************)
\* Mutant: the "+ 1" is missing.
EstimateTNoIncrement(v) == (pg_leftmost_one_pos64(v) * 1233) \div 4096

\* t = (pg_leftmost_one_pos64(v) + 1) * 1233 / 4096
EstimateT(v) == ((pg_leftmost_one_pos64(v) + 1) * 1233) \div 4096

\* Mutant: v > PowersOfTen[t].
LengthFromTStrict(v, t) ==
  t + (IF GeU(v, PowersOfTen[t + 1]) /\ v # PowersOfTen[t + 1] THEN 1 ELSE 0)

\* Mutant: v < PowersOfTen[t].
LengthFromTInverted(v, t) == t + (IF GeU(v, PowersOfTen[t + 1]) THEN 0 ELSE 1)

\* return t + (v >= PowersOfTen[t])
LengthFromT(v, t) == t + (IF GeU(v, PowersOfTen[t + 1]) THEN 1 ELSE 0)

decimalLength64(v) == LengthFromT(v, EstimateT(v))

\* The values a call decimalLength64(v) can return.  With v = 0 the
\* precondition of pg_leftmost_one_pos64 is broken, and an index outside
\* PowersOfTen reads past the table: the behaviour is undefined.
UndefinedLength == -1 .. 21

decimalLength64Call(v) ==
  IF IsZero(v) \/ EstimateT(v) \notin 0 .. (Len(PowersOfTen) - 1)
  THEN UndefinedLength
  ELSE {decimalLength64(v)}

(***************************************************************************)
(* Memory.                                                                 *)
(***************************************************************************)
\* The largest buffer a caller has to supply: 20 digits, a sign, a NUL.
MaxBuffer == Len(PowersOfTen) + 2

MemIdx == (0 - RedZone) .. (MaxBuffer + RedZone - 1)

\* *(p) = byte.  A store outside the modelled memory is only recorded.
Store(m, p, byte) == IF p \in DOMAIN m THEN [m EXCEPT ![p] = byte] ELSE m

\* Mutant: the two bytes of a pair in the wrong order.
TableBytesSwapped(off, g) ==
  IF off \in 0 .. (Len(DIGIT_TABLE) - 2)
  THEN <<DIGIT_TABLE[off + 2], DIGIT_TABLE[off + 1]>>
  ELSE <<g, g>>

\* The two bytes memcpy(dst, DIGIT_TABLE + off, 2) reads; g stands for what
\* lies outside the table.
TableBytes(off, g) ==
  IF off \in 0 .. (Len(DIGIT_TABLE) - 2)
  THEN <<DIGIT_TABLE[off + 1], DIGIT_TABLE[off + 2]>>
  ELSE <<g, g>>

\* memcpy(dst, DIGIT_TABLE + off, 2)
Memcpy2(m, dst, off, g) ==
  LET b == TableBytes(off, g)
  IN  Store(Store(m, dst, b[1]), dst + 1, b[2])

\* A byte read from outside DIGIT_TABLE can be anything; a step that reads
\* inside the table does not depend on it.
Garbage(offs) ==
  IF \A off \in offs : off \in 0 .. (Len(DIGIT_TABLE) - 2) THEN {0} ELSE 0 .. 255

(***************************************************************************)
(* Inputs.                                                                 *)
(***************************************************************************)
\* 2^k as a uint64_t.
Bit(k) == [j \in 1..W64 |-> IF j - 1 = k \div 4 THEN 2 ^ (k % 4) ELSE 0]

Near(x) == {AddU(x, U64(d)) : d \in 0..MaxDelta} \cup
           {SubU(x, U64(d)) : d \in 0..MaxDelta}

Magnitudes ==
  UNION {Near(Bit(k)) : k \in 0..63} \cup
  UNION {Near(PowersOfTen[k]) : k \in 1..Len(PowersOfTen)} \cup
  { UINT64CONST(<<1,2,3,4,5,6,7,8,9,0,1,2,3,4,5,6,7,8,9>>),
    UINT64CONST(<<9,8,7,6,5,4,3,2,1,0>>),
    UINT64CONST(<<1,0,0,0,0,0,0,0,1,0,0,0,0,0,0,0,0>>) }

\* Every magnitude and its two's complement.
Inputs == Magnitudes \cup {SubU(Zero(W64), m) : m \in Magnitudes}

Fills == {0, 170}

(***************************************************************************)
(* Initial state: an entry point has been called with a fresh buffer.      *)
(***************************************************************************)
Init ==
  /\ HAVE__BUILTIN_CLZ \in BOOLEAN
  /\ fn \in {"pg_ulltoa_n", "pg_lltoa"}
  /\ arg \in Inputs
  /\ fill \in Fills
  /\ mem = [p \in MemIdx |-> fill]
  /\ pc = IF fn = "pg_lltoa" THEN "pg_lltoa" ELSE "pg_ulltoa_n"
  /\ uvalue = Zero(W64)
  /\ len = 0
  /\ value = IF fn = "pg_lltoa" THEN Zero(W64) ELSE arg
  /\ a = 0
  /\ olength = 0
  /\ i = 0
  /\ value2 = Zero(W32)
  /\ ret = 0
  /\ written = {}
  /\ lookups = {}
  /\ lenArgs = {}
  /\ iters = 0
  /\ steps = 0

(***************************************************************************)
(* pg_lltoa, lines 206-215: the sign, then the call of pg_ulltoa_n.        *)
(***************************************************************************)
\* value < 0 for the int64_t with these bits.
IsNegative(v) == v[W64] >= 8

\* Mutant: uvalue = ~uvalue.
NegateOnesComplement(uv) == SubU([j \in 1..W64 |-> 15], uv)

\* uvalue = (uint64_t) 0 - uvalue
Negate(uv) == SubU(Zero(W64), uv)

pg_lltoa_sign ==
  /\ steps' = steps + 1
  /\ pc = "pg_lltoa"
  /\ LET neg == IsNegative(arg)
         uv == IF neg THEN Negate(arg) ELSE arg
         l == IF neg THEN 1 ELSE 0
     IN  /\ uvalue' = uv
         /\ len' = l
         /\ mem' = IF neg THEN Store(mem, 0, 45) ELSE mem
         /\ written' = IF neg THEN written \cup {0} ELSE written
         /\ value' = uv
         /\ a' = l
  /\ pc' = "pg_ulltoa_n"
  /\ UNCHANGED <<HAVE__BUILTIN_CLZ, fn, arg, olength, i, value2, ret, fill,
                 lookups, lenArgs, iters>>

(***************************************************************************)
(* pg_ulltoa_n                                                             *)
(***************************************************************************)
\* Where pg_ulltoa_n returns to.
AfterUlltoa == IF fn = "pg_lltoa" THEN "pg_lltoa_ret" ELSE "done"

\* Mutant: the degenerate case is not tested for.
NeverDegenerate(v) == FALSE

\* if (value == 0)
IsDegenerate(v) == IsZero(v)

\* lines 124-128
pg_ulltoa_n_degenerate ==
  /\ steps' = steps + 1
  /\ pc = "pg_ulltoa_n"
  /\ IsDegenerate(value)
  /\ mem' = Store(mem, a, 48)
  /\ written' = written \cup {a}
  /\ ret' = 1
  /\ pc' = AfterUlltoa
  /\ UNCHANGED <<HAVE__BUILTIN_CLZ, fn, arg, uvalue, len, value, a, olength,
                 i, value2, fill, lookups, lenArgs, iters>>

\* line 130
pg_ulltoa_n_length ==
  /\ steps' = steps + 1
  /\ pc = "pg_ulltoa_n"
  /\ ~IsDegenerate(value)
  /\ olength' \in decimalLength64Call(value)
  /\ lenArgs' = lenArgs \cup {value}
  /\ pc' = "loop"
  /\ UNCHANGED <<HAVE__BUILTIN_CLZ, fn, arg, mem, uvalue, len, value, a, i,
                 value2, ret, fill, written, lookups, iters>>

\* Mutant: while (value >= 1000000000), a zero too many.
LoopConditionExtraZero(v) == GeU(v, U64(1000000000))

\* while (value >= 100000000)
LoopCondition(v) == GeU(v, U64(100000000))

\* Mutant: pos is one byte too far.
PosOffByOne(p, ol, k) == p + ol - k + 1

\* char *pos = a + olength - i
Pos(p, ol, k) == p + ol - k

\* Mutant: n << 2.
TableOffsetShift2(n) == n * 4

\* n << 1: the offset of the pair of digits of n in DIGIT_TABLE.
TableOffset(n) == n * 2

\* lines 133-154: one iteration of the loop
pg_ulltoa_n_loop ==
  /\ steps' = steps + 1
  /\ pc = "loop"
  /\ LoopCondition(value)
  /\ LET q == DivU(value, 100000000)
         v2 == CastU32(SubU(value, MulU(q, 100000000)))
         c == RemU(v2, 10000)
         d == ToInt(DivU(v2, 10000))
         c0 == TableOffset(c % 100)
         c1 == TableOffset(c \div 100)
         d0 == TableOffset(d % 100)
         d1 == TableOffset(d \div 100)
         pos == Pos(a, olength, i)
     IN  /\ value' = q
         /\ \E g \in Garbage({c0, c1, d0, d1}) :
              mem' = Memcpy2(Memcpy2(Memcpy2(Memcpy2(mem,
                       pos - 2, c0, g), pos - 4, c1, g), pos - 6, d0, g),
                       pos - 8, d1, g)
         /\ written' = written \cup ((pos - 8) .. (pos - 1))
         /\ lookups' = lookups \cup {c0, c1, d0, d1}
  /\ i' = i + 8
  /\ iters' = iters + 1
  /\ UNCHANGED <<HAVE__BUILTIN_CLZ, fn, arg, pc, uvalue, len, a, olength,
                 value2, ret, fill, lenArgs>>

\* line 157: value2 = (uint32_t) value
pg_ulltoa_n_narrow ==
  /\ steps' = steps + 1
  /\ pc = "loop"
  /\ ~LoopCondition(value)
  /\ value2' = CastU32(value)
  /\ pc' = "tail4"
  /\ UNCHANGED <<HAVE__BUILTIN_CLZ, fn, arg, mem, uvalue, len, value, a,
                 olength, i, ret, fill, written, lookups, lenArgs, iters>>

\* lines 159-172
pg_ulltoa_n_tail4 ==
  /\ steps' = steps + 1
  /\ pc = "tail4"
  /\ IF GeU(value2, U32(10000))
     THEN LET c == ToInt(SubU(value2, MulU(DivU(value2, 10000), 10000)))
              c0 == TableOffset(c % 100)
              c1 == TableOffset(c \div 100)
              pos == Pos(a, olength, i)
          IN  /\ value2' = DivU(value2, 10000)
              /\ \E g \in Garbage({c0, c1}) :
                   mem' = Memcpy2(Memcpy2(mem, pos - 2, c0, g), pos - 4, c1, g)
              /\ written' = written \cup ((pos - 4) .. (pos - 1))
              /\ lookups' = lookups \cup {c0, c1}
              /\ i' = i + 4
     ELSE UNCHANGED <<value2, mem, written, lookups, i>>
  /\ pc' = "tail2"
  /\ UNCHANGED <<HAVE__BUILTIN_CLZ, fn, arg, uvalue, len, value, a, olength,
                 ret, fill, lenArgs, iters>>

\* lines 173-182
pg_ulltoa_n_tail2 ==
  /\ steps' = steps + 1
  /\ pc = "tail2"
  /\ IF GeU(value2, U32(100))
     THEN LET c == TableOffset(RemU(value2, 100))
              pos == Pos(a, olength, i)
          IN  /\ value2' = DivU(value2, 100)
              /\ \E g \in Garbage({c}) : mem' = Memcpy2(mem, pos - 2, c, g)
              /\ written' = written \cup ((pos - 2) .. (pos - 1))
              /\ lookups' = lookups \cup {c}
              /\ i' = i + 2
     ELSE UNCHANGED <<value2, mem, written, lookups, i>>
  /\ pc' = "tail1"
  /\ UNCHANGED <<HAVE__BUILTIN_CLZ, fn, arg, uvalue, len, value, a, olength,
                 ret, fill, lenArgs, iters>>

\* lines 183-193
pg_ulltoa_n_tail1 ==
  /\ steps' = steps + 1
  /\ pc = "tail1"
  /\ IF GeU(value2, U32(10))
     THEN LET c == ToInt(MulU(value2, 2))
              pos == Pos(a, olength, i)
          IN  /\ \E g \in Garbage({c}) : mem' = Memcpy2(mem, pos - 2, c, g)
              /\ written' = written \cup ((pos - 2) .. (pos - 1))
              /\ lookups' = lookups \cup {c}
     ELSE /\ mem' = Store(mem, a, (48 + LowByte(value2)) % 256)
          /\ written' = written \cup {a}
          /\ UNCHANGED lookups
  /\ ret' = olength
  /\ pc' = AfterUlltoa
  /\ UNCHANGED <<HAVE__BUILTIN_CLZ, fn, arg, uvalue, len, value, a, olength,
                 i, value2, fill, lenArgs, iters>>

(***************************************************************************)
(* pg_lltoa, lines 215-217: the terminator.                                *)
(***************************************************************************)
pg_lltoa_terminate ==
  /\ steps' = steps + 1
  /\ pc = "pg_lltoa_ret"
  /\ len' = len + ret
  /\ mem' = Store(mem, len', 0)
  /\ written' = written \cup {len'}
  /\ pc' = "done"
  /\ UNCHANGED <<HAVE__BUILTIN_CLZ, fn, arg, uvalue, value, a, olength, i,
                 value2, ret, fill, lookups, lenArgs, iters>>

Next ==
  \/ pg_lltoa_sign
  \/ pg_ulltoa_n_degenerate
  \/ pg_ulltoa_n_length
  \/ pg_ulltoa_n_loop
  \/ pg_ulltoa_n_narrow
  \/ pg_ulltoa_n_tail4
  \/ pg_ulltoa_n_tail2
  \/ pg_ulltoa_n_tail1
  \/ pg_lltoa_terminate

Spec == Init /\ [][Next]_vars

(***************************************************************************)
(* Reference definitions the claims are stated with.  None of them uses    *)
(* the tables or the functions of the program.                             *)
(***************************************************************************)
\* The canonical decimal digits of x, most significant first.
RECURSIVE DecimalOf(_)
DecimalOf(x) ==
  IF IsZero(DivU(x, 10)) THEN <<RemU(x, 10)>>
  ELSE DecimalOf(DivU(x, 10)) \o <<RemU(x, 10)>>

\* Arithmetic wide enough for 2^64 and for any 20-digit number.
Wide == W64 + 4

\* ASCII digits read as a decimal number.
RECURSIVE ParseFrom(_, _, _)
ParseFrom(bs, k, acc) ==
  IF k > Len(bs) THEN acc
  ELSE ParseFrom(bs, k + 1, AddU(MulU(acc, 10), Limbs(bs[k] - 48, Wide)))

ParseDecimal(bs) == ParseFrom(bs, 1, Zero(Wide))

Ascii(ds) == [k \in 1..Len(ds) |-> 48 + ds[k]]

\* floor(log2(x)), x # 0: the n with 2^n <= x < 2^(n+1).
FloorLog2(x) ==
  CHOOSE n \in 0..63 : GeU(x, Bit(n)) /\ (n = 63 \/ ~GeU(x, Bit(n + 1)))

\* floor(log10(x)), x # 0.
FloorLog10(x) == Len(DecimalOf(x)) - 1

\* 10^n modulo 2^64.
RECURSIVE TenTo(_)
TenTo(n) == IF n = 0 THEN U64(1) ELSE MulU(TenTo(n - 1), 10)

\* x div 10^(8n).
RECURSIVE DropDigits8(_, _)
DropDigits8(x, n) ==
  IF n = 0 THEN x ELSE DropDigits8(DivU(DivU(x, 10000), 10000), n - 1)

\* |v| for the int64_t with the bits v, computed without wraparound.
Magnitude(v) ==
  IF IsNegative(v)
  THEN SubSeq(SubU([j \in 1..Wide |-> IF j = W64 + 1 THEN 1 ELSE 0],
                   ZeroExtend(v, Wide)), 1, W64)
  ELSE v

\* n bytes of memory from offset p.
Bytes(p, n) == [k \in 1..n |-> mem[p + k - 1]]

AllOnes == [j \in 1..W64 |-> 15]

\* pg_ulltoa_n has returned (to its caller, or to pg_lltoa).
UlltoaReturned == pc = "pg_lltoa_ret" \/ (pc = "done" /\ fn = "pg_ulltoa_n")

\* The argument `value` pg_ulltoa_n was called with.
value0 == IF fn = "pg_lltoa" THEN uvalue ELSE arg

\* decimalLength64 has just returned into olength.
LengthKnown == pc = "loop" /\ iters = 0

(***************************************************************************)
(* Claims.                                                                 *)
(***************************************************************************)
\* C1: when pg_ulltoa_n returns length n for value v, the n bytes from the
\* buffer start are ASCII digits and, read most-significant first as a
\* decimal number, give exactly v.
C1_RoundTrip ==
  UlltoaReturned =>
    /\ ret \in 1..20
    /\ \A k \in 0..(ret - 1) : mem[a + k] \in 48..57
    /\ ParseDecimal(Bytes(a, ret)) = ZeroExtend(value0, Wide)

C1_Witness ==
  /\ pc = "done" /\ fn = "pg_ulltoa_n"
  /\ arg = UINT64CONST(<<1,2,3,4,5,6,7,8,9,0,1,2,3,4,5,6,7,8,9>>)
  /\ iters = 2 /\ ret = 19

\* C2: the length pg_ulltoa_n returns is the number of digits of the
\* canonical decimal representation of the value; it is in 1..20, it is 1
\* with buffer[0] = '0' for 0, and 20 with "18446744073709551615" for 2^64-1.
C2_Length ==
  UlltoaReturned =>
    /\ ret = Len(DecimalOf(value0))
    /\ ret \in 1..20
    /\ IsZero(value0) => (ret = 1 /\ mem[a] = 48)
    /\ value0 = AllOnes =>
         /\ ret = 20
         /\ Bytes(a, 20) = Ascii(<<1,8,4,4,6,7,4,4,0,7,3,7,0,9,5,5,1,6,1,5>>)

C2_Witness ==
  /\ pc = "done" /\ fn = "pg_ulltoa_n" /\ arg = AllOnes /\ ret = 20

\* The text of the int64_t with the bits arg: '-' if negative, then the
\* digits of its magnitude.
ExpectedSigned ==
  (IF IsNegative(arg) THEN <<45>> ELSE <<>>) \o Ascii(DecimalOf(Magnitude(arg)))

\* C3: when pg_lltoa returns, the buffer holds '-' exactly when the value is
\* negative, then the canonical digits of |value| (also for -2^63), then a
\* zero byte, and the returned length counts the sign and the digits, not
\* the terminator.
C3_Signed ==
  (pc = "done" /\ fn = "pg_lltoa") =>
    /\ len = Len(ExpectedSigned)
    /\ Bytes(0, len + 1) = ExpectedSigned \o <<0>>
    /\ arg = Bit(63) =>
         /\ len = 20
         /\ Bytes(0, 20) =
              <<45>> \o Ascii(<<9,2,2,3,3,7,2,0,3,6,8,5,4,7,7,5,8,0,8>>)
    /\ IsZero(arg) => Bytes(0, 2) = <<48, 0>>
    /\ arg = AllOnes => Bytes(0, 3) = <<45, 49, 0>>

C3_Witness ==
  /\ pc = "done" /\ fn = "pg_lltoa" /\ arg = Bit(63)
  /\ len = 20 /\ mem[0] = 45 /\ mem[20] = 0 /\ fill # 0

\* The buffer size the entry point is documented to need.
Capacity == IF fn = "pg_lltoa" THEN 21 ELSE 20

\* The offsets the entry point may store to, given what it returned.
Footprint == IF fn = "pg_lltoa" THEN 0..len ELSE 0..(ret - 1)

\* C4: pg_ulltoa_n stores only at offsets in [0, returned length) and
\* pg_lltoa only in [0, returned length]; every other byte keeps the content
\* it had before the call; 20 bytes (21 for pg_lltoa) are never exceeded.
C4_Frame ==
  /\ written \subseteq 0..(Capacity - 1)
  /\ \A p \in MemIdx \ written : mem[p] = fill
  /\ pc = "done" =>
       /\ written \subseteq Footprint
       /\ \A p \in MemIdx \ Footprint : mem[p] = fill
       /\ Footprint \subseteq 0..(Capacity - 1)

C4_Witness ==
  /\ pc = "done" /\ fn = "pg_lltoa" /\ arg = AllOnes /\ fill = 170
  /\ written = 0..2 /\ mem[3] = 170 /\ mem[-1] = 170

\* C5: decimalLength64 is monotonic: a smaller nonzero value never has a
\* larger digit count, a larger value never a smaller one.
C5_Monotonic ==
  (LengthKnown /\ fn = "pg_ulltoa_n" /\ fill = 0) =>
    \A w \in Inputs :
      (~IsZero(w) /\ GeU(value, w)) => decimalLength64(w) <= olength

C5_Witness ==
  /\ LengthKnown /\ fn = "pg_ulltoa_n" /\ fill = 0
  /\ value = PowersOfTen[11] /\ olength = 11
  /\ decimalLength64(SubU(value, U64(1))) = 10

\* C6 as stated: t is within one below floor(log10(value)) and never above
\* it.
C6_AsStated ==
  LengthKnown =>
    /\ FloorLog10(value) - 1 <= EstimateT(value)
    /\ EstimateT(value) <= FloorLog10(value)

\* C6 amended: t is floor(log10(value)) or one more (never an
\* underestimate), and the returned count is t + (1 if value >= 10^t else 0).
C6_Estimate ==
  LengthKnown =>
    /\ FloorLog10(value) <= EstimateT(value)
    /\ EstimateT(value) <= FloorLog10(value) + 1
    /\ olength = EstimateT(value) +
                   (IF GeU(value, TenTo(EstimateT(value))) THEN 1 ELSE 0)

C6_Witness ==
  /\ LengthKnown /\ value = U64(8) /\ EstimateT(value) = 1
  /\ FloorLog10(value) = 0 /\ olength = 1

\* C7: on every nonzero word the table scan and the count-leading-zeros path
\* of pg_leftmost_one_pos64 agree, equal floor(log2(word)), lie in 0..63, and
\* the scan stops with shift >= 0.
C7_BitLength ==
  LengthKnown =>
    /\ TablePos64(value) = BuiltinPos64(value)
    /\ TablePos64(value) = FloorLog2(value)
    /\ pg_leftmost_one_pos64(value) \in 0..63
    /\ ScanShift(value, 64 - 8) >= 0

C7_Witness ==
  /\ LengthKnown /\ value = Bit(63) /\ TablePos64(value) = 63
  /\ BuiltinPos64(value) = 63 /\ ~HAVE__BUILTIN_CLZ

\* C8: decimalLength64 (and so pg_leftmost_one_pos64) is only ever called
\* with a nonzero argument; for 0 pg_ulltoa_n returns without calling it.
C8_Nonzero ==
  /\ \A v \in lenArgs : ~IsZero(v)
  /\ (UlltoaReturned /\ IsZero(value0)) => lenArgs = {}
  /\ (UlltoaReturned /\ ~IsZero(value0)) => lenArgs = {value0}

C8_Witness ==
  /\ pc = "done" /\ fn = "pg_lltoa" /\ IsZero(arg) /\ lenArgs = {} /\ len = 1

\* The loop of pg_ulltoa_n runs at most 3 times and replaces value by
\* value div 10^8, which is strictly smaller; after it value is below 10^8
\* and the 32-bit value2 holds it whole.
LoopBound ==
  /\ iters <= 3
  /\ pc = "loop" => value = DropDigits8(value0, iters)
  /\ (pc = "loop" /\ iters > 0) =>
       /\ value # DropDigits8(value0, iters - 1)
       /\ GeU(DropDigits8(value0, iters - 1), value)
  /\ pc \in {"tail4", "tail2", "tail1"} =>
       /\ ~GeU(value, U64(100000000))
       /\ value = DropDigits8(value0, iters)
  /\ pc = "tail4" => ZeroExtend(value2, W64) = value

\* A step of the code is defined in the current state: the guard of one of
\* the actions holds and its assignments can be made.
CanStep ==
  \/ pc = "pg_lltoa"
  \/ pc = "pg_ulltoa_n" /\ IsDegenerate(value)
  \/ pc = "pg_ulltoa_n" /\ ~IsDegenerate(value)
       /\ decimalLength64Call(value) # {}
  \/ pc = "loop" /\ LoopCondition(value)
  \/ pc = "loop" /\ ~LoopCondition(value)
  \/ pc \in {"tail4", "tail2", "tail1"}
  \/ pc = "pg_lltoa_ret"

\* C9: every call terminates (each step increases steps, steps never
\* exceeds 10, and a call that has not returned can always take a step); the
\* 8-digit loop runs at most 3 times, each iteration replacing value by the
\* strictly smaller value div 10^8; after the loop value is below 10^8 and
\* fits the 32-bit value2 without truncation.
C9_Termination ==
  /\ LoopBound
  /\ steps <= 10
  /\ pc # "done" => CanStep

C9_Witness ==
  /\ pc = "done" /\ iters = 2 /\ fn = "pg_lltoa" /\ arg = Bit(63)
  /\ steps = 9

\* C10: every offset used into DIGIT_TABLE is even and in 0..198, value2 is
\* below 100 when the last step doubles it, and the index used into
\* PowersOfTen is in 0..19.
C10_TableBounds ==
  /\ \A off \in lookups : off \in 0..198 /\ off % 2 = 0
  /\ pc = "tail1" => ~GeU(value2, U32(100))
  /\ \A v \in lenArgs : EstimateT(v) \in 0..19

C10_Witness ==
  /\ pc = "done" /\ 198 \in lookups /\ iters = 2
  /\ \E v \in lenArgs : EstimateT(v) = 19

====
